---- MODULE Spec2Model ----
(***************************************************************************)
(* Model of neurokit2/epochs/epochs_create.py: epochs_create() and         *)
(* _epochs_create_baseline().                                              *)
(*                                                                         *)
(* Numbers are exact rationals <<numerator, denominator>> in lowest terms  *)
(* with a positive denominator; <<0, 0>> is NaN.  Floating-point rounding  *)
(* error is not modelled: every float operation is the exact operation.    *)
(* Python values that may be None, a number or a list are records          *)
(* [t |-> "None" | "num" | "list", v |-> <<...>>].                         *)
(***************************************************************************)
EXTENDS Integers, Sequences, FiniteSets, TLC

(***************************************************************************)
(* Bounds of the model.                                                    *)
(***************************************************************************)
MaxRows == 6
MaxEvents == 2
MaxRate == 2

(***************************************************************************)
(* Exact arithmetic standing for Python / numpy float arithmetic.          *)
(***************************************************************************)
Abs(x) == IF x < 0 THEN -x ELSE x

Min(a, b) == IF a < b THEN a ELSE b

Max(a, b) == IF a > b THEN a ELSE b

RECURSIVE GCD(_, _)
GCD(a, b) == IF b = 0 THEN a ELSE GCD(b, a % b)

NaN == <<0, 0>>

IsNaN(q) == q[2] = 0

Rat(n, d) ==
    IF d = 0 THEN NaN
    ELSE LET g == GCD(Abs(n), Abs(d))
             s == IF d < 0 THEN -1 ELSE 1
         IN  <<(s * n) \div g, (s * d) \div g>>

R(n) == <<n, 1>>

RAdd(p, q) == IF IsNaN(p) \/ IsNaN(q) THEN NaN
              ELSE Rat(p[1] * q[2] + q[1] * p[2], p[2] * q[2])

RSub(p, q) == IF IsNaN(p) \/ IsNaN(q) THEN NaN
              ELSE Rat(p[1] * q[2] - q[1] * p[2], p[2] * q[2])

RMul(p, q) == IF IsNaN(p) \/ IsNaN(q) THEN NaN
              ELSE Rat(p[1] * q[1], p[2] * q[2])

RDiv(p, q) == IF IsNaN(p) \/ IsNaN(q) \/ q[1] = 0 THEN NaN
              ELSE Rat(p[1] * q[2], p[2] * q[1])

\* comparisons with NaN are false, as in IEEE arithmetic
RLe(p, q) == ~IsNaN(p) /\ ~IsNaN(q) /\ p[1] * q[2] <= q[1] * p[2]

RLt(p, q) == ~IsNaN(p) /\ ~IsNaN(q) /\ p[1] * q[2] < q[1] * p[2]

\* Python int(x): truncation toward zero
Trunc(q) == IF q[1] >= 0 THEN q[1] \div q[2] ELSE -((-q[1]) \div q[2])

\* Python round(x): nearest integer, ties to the even neighbour
Round(q) ==
    LET fl == q[1] \div q[2]
        twice == 2 * (q[1] - fl * q[2])
    IN  IF twice < q[2] THEN fl
        ELSE IF twice > q[2] THEN fl + 1
        ELSE IF fl % 2 = 0 THEN fl ELSE fl + 1

RECURSIVE RSum(_, _)
RSum(s, J) == IF J = {} THEN R(0)
              ELSE LET j == CHOOSE x \in J : TRUE
                   IN  RAdd(s[j], RSum(s, J \ {j}))

\* pandas mean of the values s[j], j in J: NaN over an empty selection
Mean(s, J) == IF J = {} THEN NaN ELSE RDiv(RSum(s, J), R(Cardinality(J)))

(***************************************************************************)
(* Python values.                                                          *)
(***************************************************************************)
None == [t |-> "None", v |-> <<>>]

Num(q) == [t |-> "num", v |-> <<q>>]

List(s) == [t |-> "list", v |-> s]

Str(s) == <<s>>

NoColumn == <<>>

\* listify(): a scalar is repeated once per event, a list is taken as it is
listify(value, n) == IF value.t = "list" THEN value.v ELSE [k \in 1..n |-> value.v[1]]

\* listify() of the condition argument: None, or one condition per event
listify_condition(condition, n) ==
    IF condition = NoColumn THEN [k \in 1..n |-> NoColumn]
    ELSE [k \in 1..n |-> Str(condition[k])]

\* _events_find_label() without explicit labels: "1", "2", ... and no condition
DefaultLabels == <<"1", "2", "3", "4", "5">>

events_find_label(onset) ==
    [onset |-> onset, label |-> [k \in DOMAIN onset |-> DefaultLabels[k]], condition |-> NoColumn]

(***************************************************************************)
(* pandas / numpy operations used by the code.                             *)
(***************************************************************************)
\* a Python slice bound against a length N: negative bounds count from the end
SliceIndex(x, N) == IF x < 0 THEN Max(x + N, 0) ELSE Min(x, N)

\* data.iloc[a:b]: the row positions selected (0-based)
iloc(a, b, N) ==
    LET lo == SliceIndex(a, N)
        hi == SliceIndex(b, N)
    IN  [k \in 1..Max(hi - lo, 0) |-> lo + k - 1]

\* the same sequence without its end point
linspace_Open(lo, hi, num) ==
    [j \in 1..num |-> RAdd(lo, RMul(R(j - 1), RDiv(RSub(hi, lo), R(num))))]

\* np.linspace(start, stop, num, endpoint=True)
linspace(lo, hi, num) ==
    [j \in 1..num |->
        IF num = 1 THEN lo
        ELSE RAdd(lo, RMul(R(j - 1), RDiv(RSub(hi, lo), R(num - 1))))]

Columns(epoch) == DOMAIN epoch.cols

\* epoch.loc[lo:hi]: label slice of a sorted float index, both ends included
LocSlice(epoch, lo, hi) ==
    {j \in DOMAIN epoch.index : RLe(lo, epoch.index[j]) /\ RLe(epoch.index[j], hi)}

\* the rows strictly before hi
LocUpTo_Strict(epoch, hi) == {j \in DOMAIN epoch.index : RLt(epoch.index[j], hi)}

\* epoch.loc[:hi]
LocUpTo(epoch, hi) == {j \in DOMAIN epoch.index : RLe(epoch.index[j], hi)}

\* epoch.loc[v]: rows whose label equals v
LocLabel(epoch, v) == {j \in DOMAIN epoch.index : epoch.index[j] = v}

\* DataFrame.mean(): one mean per column over the rows J
ColMeans(epoch, J) == [c \in Columns(epoch) |-> Mean(epoch.cols[c], J)]

\* Series.mean() of one row: one number, the mean over all columns
RECURSIVE RowSum(_, _, _)
RowSum(epoch, j, cs) ==
    IF cs = {} THEN R(0)
    ELSE LET c == CHOOSE x \in cs : TRUE
         IN  RAdd(epoch.cols[c][j], RowSum(epoch, j, cs \ {c}))

RowMean(epoch, j) == RDiv(RowSum(epoch, j, Columns(epoch)), R(Cardinality(Columns(epoch))))

\* epoch - baseline, baseline a Series indexed by column
Subtract(epoch, baseline) ==
    [epoch EXCEPT !.cols =
        [c \in Columns(epoch) |->
            [j \in DOMAIN epoch.cols[c] |-> RSub(epoch.cols[c][j], baseline[c])]]]

\* epoch - baseline, baseline a scalar
SubtractScalar(epoch, b) == Subtract(epoch, [c \in Columns(epoch) |-> b])

(***************************************************************************)
(* _epochs_create_baseline(epoch, baseline_correction, epochs_duration,    *)
(* epochs_start).  The result carries the returned table, the policy list  *)
(* as the call leaves it (the list is updated in place) and the exception  *)
(* raised, if any.                                                         *)
(***************************************************************************)
\* a lookup that yields an undefined baseline instead of raising
LocMean_Silent(epoch, v) ==
    LET J == LocLabel(epoch, v)
    IN  IF Cardinality(J) = 1
        THEN [error |-> "none", value |-> RowMean(epoch, CHOOSE j \in J : TRUE),
              percol |-> FALSE, J |-> J]
        ELSE [error |-> "none", value |-> NaN, percol |-> TRUE, J |-> J]

\* line 134: epoch.loc[v].mean(); a label that is not in the index raises
LocMean(epoch, v) ==
    LET J == LocLabel(epoch, v)
    IN  IF J = {} THEN [error |-> "KeyError", value |-> NaN, percol |-> TRUE, J |-> {}]
        ELSE IF Cardinality(J) = 1
             THEN [error |-> "none", value |-> RowMean(epoch, CHOOSE j \in J : TRUE),
                   percol |-> FALSE, J |-> J]
             ELSE [error |-> "none", value |-> NaN, percol |-> TRUE, J |-> J]

BaselineOf(epoch, bc, es) ==
    IF bc.kind = "list" THEN
        IF bc.lo.t # "num" \/ bc.hi.t # "num" THEN [error |-> "TypeError", value |-> NaN, percol |-> TRUE, J |-> {}]
        ELSE [error |-> "none", value |-> NaN, percol |-> TRUE,
              J |-> LocSlice(epoch, bc.lo.v[1], bc.hi.v[1])]
    ELSE IF bc.kind = "True" THEN
        IF es.t # "num" THEN [error |-> "TypeError", value |-> NaN, percol |-> TRUE, J |-> {}]
        ELSE IF RLe(es.v[1], R(0))
             THEN [error |-> "none", value |-> NaN, percol |-> TRUE, J |-> LocUpTo(epoch, R(0))]
             ELSE [error |-> "none", value |-> NaN, percol |-> TRUE, J |-> LocUpTo(epoch, es.v[1])]
    ELSE IF bc.kind = "int" THEN LocMean(epoch, bc.v.v[1])
    ELSE [error |-> "none", value |-> R(0), percol |-> FALSE, J |-> {}]

\* lines 120-124: a None bound of the caller's list is overwritten
ResolveList(bc, es) ==
    IF bc.kind = "list"
    THEN [bc EXCEPT !.lo = IF bc.lo.t = "None" THEN es ELSE bc.lo,
                    !.hi = IF bc.hi.t = "None" THEN Num(R(0)) ELSE bc.hi]
    ELSE bc

epochs_create_baseline(epoch, bc, ed, es) ==
    LET bc2 == ResolveList(bc, es)
        b == BaselineOf(epoch, bc2, es)
    IN  [bc |-> bc2,
         error |-> b.error,
         epoch |-> IF b.error # "none" THEN epoch
                   ELSE IF b.percol THEN Subtract(epoch, ColMeans(epoch, b.J))
                   ELSE SubtractScalar(epoch, b.value)]

(***************************************************************************)
(* State: the caller's arguments and the locals of one epochs_create call. *)
(***************************************************************************)
VARIABLES
    data,                 \* argument: a list of values or a DataFrame
    events,               \* argument: a list of onsets or a dict
    sampling_rate,        \* argument
    baseline_correction,  \* argument: the caller's policy object
    epochs_start,         \* argument: a number or one number per event
    epochs_duration,      \* argument: a number or one number per event
    frame,                \* local data after line 78
    parameters,           \* local, line 82
    i,                    \* loop index, 1-based
    start,                \* local, line 87
    end,                  \* local, line 88
    sliced,               \* row positions of data.iloc[int(start):int(end)]
    epoch,                \* local: the table built by the last iteration
    epochs,               \* local dict, as its items in insertion order
    error,                \* exception that ended the call, or "none"
    pc                    \* "idle", "loop", "done" (returned) or "raised"

vars == <<data, events, sampling_rate, baseline_correction, epochs_start,
          epochs_duration, frame, parameters, i, start, end, sliced, epoch,
          epochs, error, pc>>

NoTable == [index |-> <<>>, cols |-> <<>>, Label |-> NoColumn, Condition |-> NoColumn]

NoParameters == [onset |-> <<>>, label |-> <<>>, condition |-> <<>>, start |-> <<>>, duration |-> <<>>]

(***************************************************************************)
(* Inputs.                                                                 *)
(***************************************************************************)
ValA(k) == (k * k + 3) % 7

ValB(k) == ((5 * k) % 3) - 1

DataSets ==
    { [kind |-> "list", cols |-> [c \in {"Signal"} |-> [k \in 1..MaxRows |-> ValA(k - 1)]]],
      [kind |-> "frame", cols |-> [c \in {"ECG", "RSP"} |->
            [k \in 1..MaxRows |-> IF c = "ECG" THEN ValA(k - 1) ELSE ValB(k - 1)]]] }

OnsetValues == {0, MaxRows \div 2}

LabelNames == <<"A", "B", "A", "C", "B">>

ConditionNames == <<"Negative", "Neutral", "Neutral", "Negative", "Neutral">>

EventSets ==
    UNION { UNION { { [isdict |-> FALSE, onset |-> o, label |-> <<>>, condition |-> NoColumn],
                      [isdict |-> TRUE, onset |-> o, label |-> [k \in 1..n |-> LabelNames[k]],
                       condition |-> NoColumn],
                      [isdict |-> TRUE, onset |-> o, label |-> [k \in 1..n |-> "A"],
                       condition |-> [k \in 1..n |-> ConditionNames[k]]] }
                    : o \in [1..n -> OnsetValues] }
            : n \in 1..MaxEvents }

Rates == 1..MaxRate

Policies ==
    { [kind |-> "False", lo |-> None, hi |-> None, v |-> None],
      [kind |-> "True", lo |-> None, hi |-> None, v |-> None],
      [kind |-> "list", lo |-> None, hi |-> Num(R(0)), v |-> None],
      [kind |-> "list", lo |-> Num(R(-1)), hi |-> Num(R(0)), v |-> None],
      [kind |-> "list", lo |-> Num(R(0)), hi |-> None, v |-> None],
      [kind |-> "int", lo |-> None, hi |-> None, v |-> Num(R(0))],
      [kind |-> "int", lo |-> None, hi |-> None, v |-> Num(R(1))],
      [kind |-> "other", lo |-> None, hi |-> None, v |-> Num(Rat(1, 2))] }

StartValues(n) ==
    { Num(R(-1)), Num(Rat(-1, 2)), Num(R(0)), Num(Rat(1, 2)) }
    \cup { List([k \in 1..n |-> IF k % 2 = 1 THEN R(-1) ELSE R(0)]) }

DurationValues(n) ==
    { Num(Rat(1, 2)), Num(Rat(3, 2)), Num(R(2)) }
    \cup { List([k \in 1..n |-> IF k % 2 = 1 THEN R(1) ELSE R(2)]) }

\* the documented example: 4 events at onsets 10, 50, 90, 130 of a 150-row
\* signal sampled at 10 Hz
ExampleData == [kind |-> "list", cols |-> [c \in {"Signal"} |-> [k \in 1..150 |-> ValA(k - 1)]]]

ExampleEvents == [isdict |-> FALSE, onset |-> <<10, 50, 90, 130>>, label |-> <<>>,
                  condition |-> NoColumn]

IsExample == events = ExampleEvents /\ sampling_rate = 10

Init ==
    /\ \/ /\ data \in DataSets
          /\ events \in EventSets
          /\ sampling_rate \in Rates
       \/ /\ data = ExampleData
          /\ events = ExampleEvents
          /\ sampling_rate = 10
    /\ baseline_correction \in Policies
    /\ epochs_start = Num(R(0))
    /\ epochs_duration = Num(R(1))
    /\ frame = <<>>
    /\ parameters = NoParameters
    /\ i = 1
    /\ start = R(0)
    /\ end = R(0)
    /\ sliced = <<>>
    /\ epoch = NoTable
    /\ epochs = <<>>
    /\ error = "none"
    /\ pc = "idle"

(***************************************************************************)
(* epochs_create, lines 66-83: sanitize the inputs, listify the parameters *)
(***************************************************************************)
SanitizeEvents(ev) == IF ev.isdict THEN ev ELSE events_find_label(ev.onset)

Call(es, ed) ==
    /\ pc \in {"idle", "done", "raised"}
    /\ LET ev == SanitizeEvents(events)
           n == Len(ev.onset)
       IN  parameters' = [onset |-> ev.onset,
                          label |-> ev.label,
                          condition |-> listify_condition(ev.condition, n),
                          start |-> listify(es, n),
                          duration |-> listify(ed, n)]
    /\ epochs_start' = es
    /\ epochs_duration' = ed
    /\ frame' = data.cols
    /\ epochs' = <<>>
    /\ i' = 1
    /\ start' = R(0)
    /\ end' = R(0)
    /\ sliced' = <<>>
    /\ epoch' = NoTable
    /\ error' = "none"
    /\ pc' = "loop"
    /\ UNCHANGED <<data, events, sampling_rate, baseline_correction>>

(***************************************************************************)
(* epochs_create, lines 84-107: one iteration of the loop over the events  *)
(***************************************************************************)
NRows(f) == Len(f[CHOOSE c \in DOMAIN f : TRUE])

\* lines 87-88
StartOf(k) == RAdd(R(parameters.onset[k]), RMul(parameters.start[k], R(sampling_rate)))

EndOf(k) == RAdd(StartOf(k), RMul(parameters.duration[k], R(sampling_rate)))

\* the slice with rounded instead of truncated bounds
SlicedOf_Rounded(k) == iloc(Round(StartOf(k)), Round(EndOf(k)), NRows(frame))

\* line 91
SlicedOf(k) == iloc(Trunc(StartOf(k)), Trunc(EndOf(k)), NRows(frame))

\* lines 91-95: the slice, its Index column and its relative-time index
RawEpoch(k) ==
    LET rows == SlicedOf(k)
    IN  [index |-> linspace(parameters.start[k],
                            RAdd(parameters.start[k], parameters.duration[k]),
                            Len(rows)),
         cols |-> [c \in DOMAIN frame \cup {"Index"} |->
                      [j \in DOMAIN rows |->
                          IF c = "Index" THEN R(rows[j]) ELSE R(frame[c][rows[j] + 1])]],
         Label |-> NoColumn,
         Condition |-> NoColumn]

\* lines 102-104
Tag(e, k) == [e EXCEPT !.Label = Str(parameters.label[k]),
                       !.Condition = parameters.condition[k]]

\* line 107: epochs[label] = epoch
Keys(d) == {d[k].key : k \in DOMAIN d}

\* a store that keeps the entry a label already has
Store_KeepFirst(d, label, e) ==
    IF label \in Keys(d) THEN d ELSE Append(d, [key |-> label, value |-> e])

Store(d, label, e) ==
    IF label \in Keys(d)
    THEN [k \in DOMAIN d |-> IF d[k].key = label THEN [key |-> label, value |-> e] ELSE d[k]]
    ELSE Append(d, [key |-> label, value |-> e])

Iterate ==
    /\ pc = "loop"
    /\ i <= Len(parameters.label)
    /\ start' = StartOf(i)
    /\ end' = EndOf(i)
    /\ sliced' = SlicedOf(i)
    /\ LET raw == RawEpoch(i)
           b == IF baseline_correction.kind # "False"
                THEN epochs_create_baseline(raw, baseline_correction, epochs_duration, epochs_start)
                ELSE [bc |-> baseline_correction, error |-> "none", epoch |-> raw]
       IN  /\ baseline_correction' = b.bc
           /\ IF b.error # "none"
              THEN /\ error' = b.error
                   /\ pc' = "raised"
                   /\ epoch' = raw
                   /\ UNCHANGED <<epochs, i>>
              ELSE /\ epoch' = Tag(b.epoch, i)
                   /\ epochs' = Store(epochs, parameters.label[i], Tag(b.epoch, i))
                   /\ i' = i + 1
                   /\ UNCHANGED <<error, pc>>
    /\ UNCHANGED <<data, events, sampling_rate, epochs_start, epochs_duration,
                   frame, parameters>>

\* line 109
Return ==
    /\ pc = "loop"
    /\ i > Len(parameters.label)
    /\ pc' = "done"
    /\ UNCHANGED <<data, events, sampling_rate, baseline_correction, epochs_start,
                   epochs_duration, frame, parameters, i, start, end, sliced, epoch,
                   epochs, error>>

Next ==
    \/ \E es \in StartValues(Len(events.onset)), ed \in DurationValues(Len(events.onset)) :
          Call(es, ed)
    \/ Iterate
    \/ Return

Spec == Init /\ [][Next]_vars

(***************************************************************************)
(* Vocabulary of the properties.                                           *)
(***************************************************************************)
\* an iteration has completed: the locals describe event i - 1
Processed == pc \in {"loop", "done"} /\ i > 1

Last == i - 1

SR(k) == RMul(parameters.start[k], R(sampling_rate))

DR(k) == RMul(parameters.duration[k], R(sampling_rate))

IsInteger(q) == q[2] = 1

\* the sample bounds as the specification words them
StartSample(k) == parameters.onset[k] + Round(SR(k))

EndSample(k) == StartSample(k) + Round(DR(k))

ClippedRows(k) ==
    LET lo == Max(0, StartSample(k))
        hi == Min(NRows(frame), EndSample(k))
    IN  [j \in 1..Max(hi - lo, 0) |-> lo + j - 1]

\* the signal channels of the sliced rows, before any correction
RawChannel(c) == [j \in DOMAIN sliced |-> R(frame[c][sliced[j] + 1])]

AllNaN(e) == \A c \in Columns(e) : \A j \in DOMAIN e.cols[c] : IsNaN(e.cols[c][j])

(***************************************************************************)
(* C1: an event whose window reaches before row 0 or past the last row     *)
(* yields exactly the rows max(0, start_sample) .. min(N, end_sample) - 1, *)
(* with start_sample = onset + round(start_offset * sampling_rate) and     *)
(* end_sample = start_sample + round(duration * sampling_rate), and never  *)
(* a row outside [start_sample, end_sample).  Stated for the windows whose *)
(* bounds are whole samples, where rounding plays no part.                 *)
(***************************************************************************)
WholeSamples(k) == IsInteger(SR(k)) /\ IsInteger(DR(k))

C1_ClippedSlice ==
    (Processed /\ WholeSamples(Last)
        /\ (StartSample(Last) < 0 \/ EndSample(Last) > NRows(frame)))
        => /\ sliced = ClippedRows(Last)
           /\ \A j \in DOMAIN sliced :
                 StartSample(Last) <= sliced[j] /\ sliced[j] < EndSample(Last)

(***************************************************************************)
(* C2: under every baseline policy the Index column of an epoch holds the  *)
(* original row numbers of the sliced rows, increasing by 1.               *)
(***************************************************************************)
C2_IndexIsRowNumber ==
    Processed => epoch.cols["Index"] = [j \in DOMAIN sliced |-> R(sliced[j])]

(***************************************************************************)
(* C3 as stated: a window inside the signal table gives exactly            *)
(* round(duration * sampling_rate) rows, a clipped one never more.         *)
(***************************************************************************)
C3_RoundedRowCount ==
    Processed =>
        IF 0 <= StartSample(Last) /\ EndSample(Last) <= NRows(frame)
        THEN Len(sliced) = Round(DR(Last))
        ELSE Len(sliced) <= Round(DR(Last))

(***************************************************************************)
(* C3 amended: with start = onset + start_offset * sampling_rate,          *)
(* end = start + duration * sampling_rate and int() truncating toward      *)
(* zero, a window with 0 <= int(start) and int(end) <= N gives exactly     *)
(* int(end) - int(start) rows, which is duration * sampling_rate when both *)
(* products are integers; every other window gives at most                 *)
(* int(end) - int(start) rows.  The 4 events at onsets 10, 50, 90, 130     *)
(* with sampling_rate 10, duration 2 and start 0 give 4 tables of 20 rows. *)
(***************************************************************************)
C3_TruncatedRowCount ==
    /\ Processed =>
          LET a == Trunc(start)
              b == Trunc(end)
          IN  /\ Len(sliced) <= b - a
              /\ (0 <= a /\ b <= NRows(frame)) => Len(sliced) = b - a
              /\ (0 <= a /\ b <= NRows(frame) /\ IsInteger(SR(Last)) /\ IsInteger(DR(Last)))
                    => R(Len(sliced)) = DR(Last)
    /\ (IsExample /\ pc = "done" /\ epochs_start = Num(R(0)) /\ epochs_duration = Num(R(2)))
          => /\ Len(epochs) = 4
             /\ \A k \in 1..4 : Len(epochs[k].value.index) = 20

C3_Witness ==
    /\ Processed
    /\ 0 <= Trunc(start) /\ Trunc(end) <= NRows(frame)
    /\ ~IsInteger(DR(Last))
    /\ Len(sliced) # Round(DR(Last))
    /\ Len(sliced) = Trunc(end) - Trunc(start)

(***************************************************************************)
(* C4: the relative-time index has one value per sliced row; with at least *)
(* 2 rows it starts at start_offset, ends at start_offset + duration and   *)
(* increases strictly in steps of duration / (count - 1).                  *)
(***************************************************************************)
C4_RelativeTimeIndex ==
    Processed =>
        LET n == Len(sliced)
            s == parameters.start[Last]
            d == parameters.duration[Last]
        IN  /\ Len(epoch.index) = n
            /\ n >= 2 =>
                  /\ epoch.index[1] = s
                  /\ epoch.index[n] = RAdd(s, d)
                  /\ \A j \in 1..n - 1 :
                        /\ RSub(epoch.index[j + 1], epoch.index[j]) = RDiv(d, R(n - 1))
                        /\ RLt(epoch.index[j], epoch.index[j + 1])

C4_Witness ==
    /\ Processed
    /\ Len(epoch.index) >= 3
    /\ Len(sliced) < Trunc(end) - Trunc(start)
    /\ epoch.index[Len(sliced)] = RAdd(parameters.start[Last], parameters.duration[Last])

(***************************************************************************)
(* C5: with baseline_correction = True the baseline window is the rows     *)
(* with relative time <= 0 when start_offset <= 0, else the rows with      *)
(* relative time <= start_offset; each signal channel is shifted by its    *)
(* mean over the window, so its corrected mean over the window is 0.       *)
(***************************************************************************)
C5_Window ==
    LET s == parameters.start[Last]
    IN  IF RLe(s, R(0)) THEN {j \in DOMAIN epoch.index : RLe(epoch.index[j], R(0))}
        ELSE {j \in DOMAIN epoch.index : RLe(epoch.index[j], s)}

C5_BaselineTrue ==
    (Processed /\ baseline_correction.kind = "True" /\ C5_Window # {}) =>
        \A c \in DOMAIN frame :
            /\ \A j \in DOMAIN sliced :
                  epoch.cols[c][j] = RSub(RawChannel(c)[j], Mean(RawChannel(c), C5_Window))
            /\ Mean(epoch.cols[c], C5_Window) = R(0)

C5_Witness ==
    /\ Processed
    /\ baseline_correction.kind = "True"
    /\ Cardinality(C5_Window) >= 2
    /\ Cardinality(C5_Window) < Len(sliced)
    /\ \E c \in DOMAIN frame : Mean(RawChannel(c), C5_Window) # R(0)

(***************************************************************************)
(* C6: every iteration resolves the default baseline window (policy True,  *)
(* or a None bound of a range policy) from the start_offset of its own     *)
(* event, whether epochs_start was a scalar or a per-event sequence, and   *)
(* so builds the epoch the policy gives with that start_offset.            *)
(***************************************************************************)
C6_PerEventDefault ==
    [][(pc = "loop" /\ i <= Len(parameters.label)
            /\ baseline_correction.kind \in {"True", "list"})
        => /\ pc' = "loop"
           /\ epoch' = Tag(epochs_create_baseline(RawEpoch(i), baseline_correction,
                               epochs_duration, Num(parameters.start[i])).epoch, i)]_vars

(***************************************************************************)
(* C7 as stated: a single numeric policy v never makes the call raise; an  *)
(* epoch without a row at relative time v comes out all undefined.  Stated *)
(* for the events whose slice is not empty.                                *)
(***************************************************************************)
C7_SilentBaselineMiss ==
    baseline_correction.kind = "int" =>
        /\ (pc = "raised" => Len(sliced) = 0)
        /\ (Processed /\ LocLabel(epoch, baseline_correction.v.v[1]) = {}) => AllNaN(epoch)

(***************************************************************************)
(* C7 amended: with an integer policy v, the first event whose epoch has   *)
(* no row at relative time exactly v makes epochs_create raise KeyError:   *)
(* that event and the events after it are not stored and nothing is        *)
(* returned; every epoch that was stored has a row at relative time v.     *)
(***************************************************************************)
C7_KeyErrorOnMiss ==
    baseline_correction.kind = "int" =>
        /\ pc = "raised" =>
              /\ error = "KeyError"
              /\ LocLabel(epoch, baseline_correction.v.v[1]) = {}
              /\ \A k \in DOMAIN epochs :
                    \E m \in 1..i - 1 : parameters.label[m] = epochs[k].key
        /\ Processed => LocLabel(epoch, baseline_correction.v.v[1]) # {}
        /\ \A k \in DOMAIN epochs :
              LocLabel(epochs[k].value, baseline_correction.v.v[1]) # {}

\* a non-empty epoch without a row at v raises, and the next event, whose
\* epoch has such a row, is never reached
C7_Witness ==
    /\ baseline_correction.kind = "int"
    /\ pc = "raised"
    /\ error = "KeyError"
    /\ Len(sliced) > 0
    /\ i < Len(parameters.label)
    /\ LocLabel(RawEpoch(i + 1), baseline_correction.v.v[1]) # {}

(***************************************************************************)
(* C8: the returned collection has one entry per distinct label, in the    *)
(* order in which the labels first occur; the entry of a label is the      *)
(* table built from the last event carrying it; a duplicate label raises   *)
(* nothing.                                                                *)
(***************************************************************************)
RECURSIVE FirstOccurrences(_)
FirstOccurrences(s) ==
    IF s = <<>> THEN <<>>
    ELSE LET r == FirstOccurrences(SubSeq(s, 1, Len(s) - 1))
             x == s[Len(s)]
         IN  IF \E k \in DOMAIN r : r[k] = x THEN r ELSE Append(r, x)

LastEvent(label) ==
    CHOOSE k \in DOMAIN parameters.label :
        /\ parameters.label[k] = label
        /\ \A m \in DOMAIN parameters.label : m > k => parameters.label[m] # label

BuiltFrom(k) ==
    Tag(IF baseline_correction.kind = "False" THEN RawEpoch(k)
        ELSE epochs_create_baseline(RawEpoch(k), baseline_correction,
                                    epochs_duration, epochs_start).epoch, k)

C9_SecondsFromOnset ==
    (Processed /\ WholeSamples(Last) /\ 0 <= Trunc(start) /\ Trunc(end) <= NRows(frame)) =>
        \A j \in DOMAIN sliced :
            epoch.index[j] = RDiv(R(sliced[j] - parameters.onset[Last]), R(sampling_rate))

(***************************************************************************)
(* C10: a call leaves its arguments unchanged, the baseline_correction     *)
(* value included.                                                         *)
(***************************************************************************)
C10_ArgumentsUnchanged ==
    [][<<data, events, sampling_rate, baseline_correction>>'
          = <<data, events, sampling_rate, baseline_correction>>]_vars

====
